---- MODULE Spec2Model ----
(***************************************************************************)
(* State-machine model of pipeline.PipelineWorkflow (src/pipeline/run.go). *)
(*                                                                         *)
(* The workflow function is single-threaded; it is cut into steps at each  *)
(* ExecuteActivity call, at each blocking point (Future.Get and            *)
(* Selector.Select) and at each iteration of its loops.  The activities    *)
(* run outside the workflow: a pending future is resolved by the execution *)
(* engine while the workflow is blocked, with any value of the activity's  *)
(* result type or with an error (this is how pipeline_test.go drives the   *)
(* workflow, by mocking every activity).                                   *)
(***************************************************************************)
EXTENDS Integers, Sequences, FiniteSets, TLC

----------------------------------------------------------------------------
(* Values *)

\* Go's nil error, as seen through err.Error() / err != nil.
NoErr == "<nil>"

\* Messages of the errors with which a future can resolve. The engine's
\* activity errors always carry a non-empty message.
ErrMsgs == {"activity error"}

\* PipelineParams.GitURL of the run (pipeline_test.go).
gitUrl == "https://github.com/afanwang/go-sample.git"

\* Workdir reported by GitClone (the value mocked in pipeline_test.go).
Workdirs == {"/tmp/test"}

\* PipelineActivityMetadata; the zero value has Workdir "".
Metadata(w) == [Workdir |-> w]
ZeroMetadata == Metadata("")

\* Longest collection a fan-out activity returns in the model.
MaxItems == 1

\* Elements of the returned collections (a failed file, as in the test).
Items == {"main.go"}

\* The collections a fan-out activity can return (FailedTests, FailedFiles,
\* Issues).  A nil slice and an empty slice both have len 0 and are both <<>>.
Collections == UNION {[1..n -> Items] : n \in 0..MaxItems}

\* Values of PipelineFailure.Details (type any), tagged with their
\* reflect.Kind: a slice (field l), a string (field s), an error value
\* (pointer kind, message in field s) or the nil interface.
SliceDetails(l) == [kind |-> "slice", s |-> "", l |-> l]
StringDetails(s) == [kind |-> "string", s |-> s, l |-> <<>>]
ErrorDetails(m) == [kind |-> "ptr", s |-> m, l |-> <<>>]
NilDetails == [kind |-> "nil", s |-> "", l |-> <<>>]

PipelineFailure(name, details) == [Activity |-> name, Details |-> details]

\* Variant of activities: the first two elements of the literal exchanged.
activities_swapped == <<"GoFmt", "GoTest", "GoModTidy", "GoBuild", "GoGenerate", "GolangCILint">>

\* The fan-out activities in the order of the activities slice.
activities == <<"GoTest", "GoFmt", "GoModTidy", "GoBuild", "GoGenerate", "GolangCILint">>

NumActivities == Len(activities)

ActivityNames == {activities[k] : k \in 1..NumActivities}

\* Position of a fan-out activity in the activities slice.
IndexOf(name) == CHOOSE k \in 1..NumActivities : activities[k] = name

\* A future: not yet created, pending, or ready with a result or an error.
NoFuture == [state |-> "none", md |-> ZeroMetadata, err |-> NoErr, items |-> <<>>]

\* Results of GoDeploy: the activity's own success value, the zero value
\* returned by the test's mock, and a result carrying an error.
DeployResults == {[Success |-> TRUE, Error |-> NoErr],
                  [Success |-> FALSE, Error |-> NoErr],
                  [Success |-> FALSE, Error |-> "deploy failed"]}

NoDeploy == [state |-> "none", md |-> ZeroMetadata, err |-> NoErr,
             res |-> [Success |-> FALSE, Error |-> NoErr]]

NoClone == [state |-> "none", remote |-> "", err |-> NoErr, res |-> ZeroMetadata]

NoCleanup == [state |-> "none", md |-> ZeroMetadata, err |-> NoErr]

\* Variant of MaximumAttempts: one attempt more.
MaximumAttempts_four == 3 + 1

\* RetryPolicy.MaximumAttempts of the activity options (run.go 441-443).
MaximumAttempts == 3

\* The directory that the k-th attempt of GitClone gets from os.MkdirTemp
\* (run.go 129): a new name at every call.
TempDir(k) == "/tmp/PipelineWorkflow-" \o ToString(k)

\* The run-submission process has not exited.
NoExit == "none"

\* No activity body has been executed on its own.
NoAct == [name |-> "none"]

\* The workflow's return value before it returns; err is the chain of
\* wrapped messages, <<>> for a nil error.
NoReturn == [hasResult |-> FALSE, Failures |-> <<>>, err |-> <<>>]

VARIABLES
    pc,         \* position of the workflow function
    i,          \* index of the loop the workflow is in
    fClone,     \* future of GitClone
    metadata,   \* the workflow's metadata local
    futures,    \* activities[k].future, by activity name
    selected,   \* futures the selector has already delivered
    result,     \* the workflow's result local (*PipelineResult)
    fDeploy,    \* future of GoDeploy
    fCleanup,   \* future of DeleteWorkdir
    ret,        \* what the workflow returned
    calls,      \* number of ExecuteActivity calls per activity
    outOfOrder, \* history: some fan-out future resolved before an earlier-issued one
    attempt,    \* failed attempts of the activity task the engine holds per activity
    dirs,       \* the temporary directories that exist on the worker's disk
    params,     \* the PipelineParams the workflow was started with
    cli,        \* position of RunPipeline in the run-submission process
    exit,       \* exit status of the run-submission process
    running,    \* activities with a timed-out attempt that still executes
    act         \* one execution of an activity body: its command and what it returned

vars == <<pc, i, fClone, metadata, futures, selected, result, fDeploy,
          fCleanup, ret, calls, outOfOrder, attempt, dirs,
          params, cli, exit, running, act>>

AllActivities == ActivityNames \cup {"GitClone", "GoDeploy", "DeleteWorkdir"}

----------------------------------------------------------------------------
(* Pure functions *)

\* Variant of isEmptyOrNil: every string counts as empty.
isEmptyOrNil_anyString(value) ==
    IF value.kind = "nil" THEN TRUE
    ELSE IF value.kind = "string" THEN TRUE
    ELSE IF value.kind = "slice" THEN Len(value.l) = 0
    ELSE FALSE

\* isEmptyOrNil (run.go 566-580).
isEmptyOrNil(value) ==
    IF value.kind = "nil" THEN TRUE
    ELSE IF value.kind = "string" THEN value.s = ""
    ELSE IF value.kind = "slice" THEN Len(value.l) = 0
    ELSE FALSE

\* Variant of hasErrors: the loop never returns true.
hasErrors_never(r) == FALSE

\* hasErrors (run.go 557-564).
hasErrors(r) ==
    \E k \in 1..Len(r.Failures) : ~isEmptyOrNil(r.Failures[k].Details)

\* Variant of IsReady: Get and Select never wait.
IsReady_always(f) == TRUE

\* Future.Get returns once the future is ready; Selector.Select delivers
\* only ready futures.
IsReady(f) == f.state = "ready"

\* Variant of ProcessResult: the error is recorded in the case of the
\* switch and again after it.
ProcessResult_errorTwice(name, f) ==
    (IF f.err = NoErr /\ Len(f.items) > 0
        THEN <<PipelineFailure(name, SliceDetails(f.items))>>
        ELSE <<>>)
    \o
    (IF f.err # NoErr
        THEN <<PipelineFailure(name, StringDetails(f.err)),
               PipelineFailure(name, StringDetails(f.err))>>
        ELSE <<>>)

\* Variant of ProcessResult: the len(...) > 0 test is missing.
ProcessResult_recordEmpty(name, f) ==
    (IF f.err = NoErr
        THEN <<PipelineFailure(name, SliceDetails(f.items))>>
        ELSE <<>>)
    \o
    (IF f.err # NoErr
        THEN <<PipelineFailure(name, StringDetails(f.err))>>
        ELSE <<>>)

\* Variant of ProcessResult: the trailing if err != nil block is missing.
ProcessResult_dropError(name, f) ==
    IF f.err = NoErr /\ Len(f.items) > 0
       THEN <<PipelineFailure(name, SliceDetails(f.items))>>
       ELSE <<>>

\* One iteration of the "Process results" loop (run.go 484-527): the
\* failures appended for the activity `name` whose future holds f.
ProcessResult(name, f) ==
    (IF f.err = NoErr /\ Len(f.items) > 0
        THEN <<PipelineFailure(name, SliceDetails(f.items))>>
        ELSE <<>>)
    \o
    (IF f.err # NoErr
        THEN <<PipelineFailure(name, StringDetails(f.err))>>
        ELSE <<>>)

----------------------------------------------------------------------------
(* Initial state: PipelineWorkflow is entered (run.go 436-444). *)

Init ==
    /\ pc = "Start"
    /\ i = 0
    /\ fClone = NoClone
    /\ metadata = ZeroMetadata
    /\ futures = [n \in ActivityNames |-> NoFuture]
    /\ selected = {}
    /\ result = [Failures |-> <<>>]
    /\ fDeploy = NoDeploy
    /\ fCleanup = NoCleanup
    /\ ret = NoReturn
    /\ calls = [n \in AllActivities |-> 0]
    /\ outOfOrder = FALSE
    /\ attempt = [n \in AllActivities |-> 0]
    /\ dirs = {}
    /\ params = [GitURL |-> gitUrl]
    /\ cli = "none"
    /\ exit = NoExit
    /\ running = {}
    /\ act = NoAct

----------------------------------------------------------------------------
(* Workflow steps *)

\* fClone := workflow.ExecuteActivity(ctx, pa.GitClone, ...) (run.go 446-448).
ExecuteGitClone ==
    /\ pc = "Start"
    /\ fClone' = [NoClone EXCEPT !.state = "pending", !.remote = params.GitURL]
    /\ calls' = [calls EXCEPT !["GitClone"] = @ + 1]
    /\ pc' = "CloneGet"
    /\ UNCHANGED <<i, metadata, futures, selected, result, fDeploy, fCleanup,
                   ret, outOfOrder, attempt, dirs,
                   params, cli, exit, running, act>>

\* Variant of CloneGet: after an error GitClone is executed again.
CloneGet_reissue ==
    /\ pc = "CloneGet"
    /\ IsReady(fClone)
    /\ IF fClone.err # NoErr
          THEN /\ pc' = "Start"
               /\ UNCHANGED <<metadata, i, ret>>
          ELSE /\ metadata' = fClone.res
               /\ pc' = "FanOut"
               /\ i' = 1
               /\ ret' = ret
    /\ UNCHANGED <<fClone, futures, selected, result, fDeploy, fCleanup,
                   calls, outOfOrder, attempt, dirs,
                   params, cli, exit, running, act>>

\* Variant of CloneGet: the error of fClone.Get is not checked.
CloneGet_ignoreErr ==
    /\ pc = "CloneGet"
    /\ IsReady(fClone)
    /\ metadata' = fClone.res
    /\ pc' = "FanOut"
    /\ i' = 1
    /\ UNCHANGED <<fClone, futures, selected, result, fDeploy, fCleanup,
                   ret, calls, outOfOrder, attempt, dirs,
                   params, cli, exit, running, act>>

\* fClone.Get and the early return, then metadata := rClone.Metadata
\* (run.go 449-454).
CloneGet ==
    /\ pc = "CloneGet"
    /\ IsReady(fClone)
    /\ IF fClone.err # NoErr
          THEN /\ ret' = [NoReturn EXCEPT !.err = <<"GitClone activity", fClone.err>>]
               /\ pc' = "Fatal"
               /\ UNCHANGED <<metadata, i>>
          ELSE /\ metadata' = fClone.res
               /\ pc' = "FanOut"
               /\ i' = 1
               /\ ret' = ret
    /\ UNCHANGED <<fClone, futures, selected, result, fDeploy, fCleanup,
                   calls, outOfOrder, attempt, dirs,
                   params, cli, exit, running, act>>

\* Variant of ExecuteFanOut: the wait loop starts one element early.
ExecuteFanOut_offByOne ==
    /\ pc = "FanOut"
    /\ futures' = [futures EXCEPT ![activities[i]] =
                       [NoFuture EXCEPT !.state = "pending", !.md = metadata]]
    /\ calls' = [calls EXCEPT ![activities[i]] = @ + 1]
    /\ IF i < NumActivities - 1
          THEN /\ i' = i + 1
               /\ pc' = pc
          ELSE /\ i' = 0
               /\ pc' = "Select"
    /\ UNCHANGED <<fClone, metadata, selected, result, fDeploy, fCleanup,
                   ret, outOfOrder, attempt, dirs,
                   params, cli, exit, running, act>>

\* The i-th element of the activities literal: ExecuteActivity of the i-th
\* fan-out activity with the shared metadata (run.go 457-467).  After the
\* last one the selector is created and every future added to it
\* (run.go 470-476), and the wait loop starts with i = 0.
ExecuteFanOut ==
    /\ pc = "FanOut"
    /\ futures' = [futures EXCEPT ![activities[i]] =
                       [NoFuture EXCEPT !.state = "pending", !.md = metadata]]
    /\ calls' = [calls EXCEPT ![activities[i]] = @ + 1]
    /\ IF i < NumActivities
          THEN /\ i' = i + 1
               /\ pc' = pc
          ELSE /\ i' = 0
               /\ pc' = "Select"
    /\ UNCHANGED <<fClone, metadata, selected, result, fDeploy, fCleanup,
                   ret, outOfOrder, attempt, dirs,
                   params, cli, exit, running, act>>

\* Variant of Select: the wait loop runs once more than there are
\* activities.
Select_waitSeven ==
    /\ pc = "Select"
    /\ \E n \in ActivityNames \ selected :
          /\ IsReady(futures[n])
          /\ selected' = selected \cup {n}
    /\ IF i + 1 < NumActivities + 1
          THEN /\ i' = i + 1
               /\ pc' = pc
          ELSE /\ i' = 1
               /\ pc' = "Process"
    /\ UNCHANGED <<fClone, metadata, futures, result, fDeploy, fCleanup,
                   ret, calls, outOfOrder, attempt, dirs,
                   params, cli, exit, running, act>>

\* Variant of Select: the callback appends the failure of the future it is
\* handed.
Select_processInCallback ==
    /\ pc = "Select"
    /\ \E n \in ActivityNames \ selected :
          /\ IsReady(futures[n])
          /\ selected' = selected \cup {n}
          /\ result' = [result EXCEPT !.Failures = @ \o ProcessResult(n, futures[n])]
    /\ IF i + 1 < NumActivities
          THEN /\ i' = i + 1
               /\ pc' = pc
          ELSE /\ i' = 0
               /\ pc' = "Gating"
    /\ UNCHANGED <<fClone, metadata, futures, fDeploy, fCleanup,
                   ret, calls, outOfOrder, attempt, dirs,
                   params, cli, exit, running, act>>

\* One iteration of the wait loop: selector.Select blocks until a future it
\* has not delivered yet is ready, and delivers it to the (empty) callback
\* (run.go 479-481).
Select ==
    /\ pc = "Select"
    /\ \E n \in ActivityNames \ selected :
          /\ IsReady(futures[n])
          /\ selected' = selected \cup {n}
    /\ IF i + 1 < NumActivities
          THEN /\ i' = i + 1
               /\ pc' = pc
          ELSE /\ i' = 1
               /\ pc' = "Process"
    /\ UNCHANGED <<fClone, metadata, futures, result, fDeploy, fCleanup,
                   ret, calls, outOfOrder, attempt, dirs,
                   params, cli, exit, running, act>>

\* Variant of Process: the loop ends at the first business failure it
\* records.
Process_stopOnFailure ==
    /\ pc = "Process"
    /\ IsReady(futures[activities[i]])
    /\ result' = [result EXCEPT !.Failures =
                      @ \o ProcessResult(activities[i], futures[activities[i]])]
    /\ IF i < NumActivities /\ ~(futures[activities[i]].err = NoErr
                                   /\ Len(futures[activities[i]].items) > 0)
          THEN /\ i' = i + 1
               /\ pc' = pc
          ELSE /\ i' = 0
               /\ pc' = "Gating"
    /\ UNCHANGED <<fClone, metadata, futures, selected, fDeploy, fCleanup,
                   ret, calls, outOfOrder, attempt, dirs,
                   params, cli, exit, running, act>>

\* Variant of Process: an error of the future is returned at once.
Process_failFast ==
    /\ pc = "Process"
    /\ IsReady(futures[activities[i]])
    /\ IF futures[activities[i]].err # NoErr
          THEN /\ ret' = [NoReturn EXCEPT !.err = <<activities[i], futures[activities[i]].err>>]
               /\ pc' = "Fatal"
               /\ UNCHANGED <<result, i>>
          ELSE /\ result' = [result EXCEPT !.Failures =
                      @ \o ProcessResult(activities[i], futures[activities[i]])]
               /\ ret' = ret
               /\ IF i < NumActivities
                     THEN /\ i' = i + 1
                          /\ pc' = pc
                     ELSE /\ i' = 0
                          /\ pc' = "Gating"
    /\ UNCHANGED <<fClone, metadata, futures, selected, fDeploy, fCleanup,
                   calls, outOfOrder, attempt, dirs,
                   params, cli, exit, running, act>>

\* One iteration of the "Process results" loop (run.go 484-527).
Process ==
    /\ pc = "Process"
    /\ IsReady(futures[activities[i]])
    /\ result' = [result EXCEPT !.Failures =
                      @ \o ProcessResult(activities[i], futures[activities[i]])]
    /\ IF i < NumActivities
          THEN /\ i' = i + 1
               /\ pc' = pc
          ELSE /\ i' = 0
               /\ pc' = "Gating"
    /\ UNCHANGED <<fClone, metadata, futures, selected, fDeploy, fCleanup,
                   ret, calls, outOfOrder, attempt, dirs,
                   params, cli, exit, running, act>>

\* Variant of Gating: GoDeploy is executed whatever the result holds.
Gating_always ==
    /\ pc = "Gating"
    /\ fDeploy' = [NoDeploy EXCEPT !.state = "pending", !.md = metadata]
    /\ calls' = [calls EXCEPT !["GoDeploy"] = @ + 1]
    /\ pc' = "DeployGet"
    /\ UNCHANGED <<i, fClone, metadata, futures, selected, result, fCleanup,
                   ret, outOfOrder, attempt, dirs,
                   params, cli, exit, running, act>>

\* Variant of Gating: the condition of the if is not negated.
Gating_negated ==
    /\ pc = "Gating"
    /\ IF hasErrors(result)
          THEN /\ fDeploy' = [NoDeploy EXCEPT !.state = "pending", !.md = metadata]
               /\ calls' = [calls EXCEPT !["GoDeploy"] = @ + 1]
               /\ pc' = "DeployGet"
          ELSE /\ pc' = "Cleanup"
               /\ UNCHANGED <<fDeploy, calls>>
    /\ UNCHANGED <<i, fClone, metadata, futures, selected, result, fCleanup,
                   ret, outOfOrder, attempt, dirs,
                   params, cli, exit, running, act>>

\* if !hasErrors(result) { fDeploy := ExecuteActivity(GoDeploy) ... }
\* (run.go 530-531); otherwise on to the cleanup.
Gating ==
    /\ pc = "Gating"
    /\ IF ~hasErrors(result)
          THEN /\ fDeploy' = [NoDeploy EXCEPT !.state = "pending", !.md = metadata]
               /\ calls' = [calls EXCEPT !["GoDeploy"] = @ + 1]
               /\ pc' = "DeployGet"
          ELSE /\ pc' = "Cleanup"
               /\ UNCHANGED <<fDeploy, calls>>
    /\ UNCHANGED <<i, fClone, metadata, futures, selected, result, fCleanup,
                   ret, outOfOrder, attempt, dirs,
                   params, cli, exit, running, act>>

\* Variant of DeployGet: DeleteWorkdir is executed before the early return.
DeployGet_cleanupOnError ==
    /\ pc = "DeployGet"
    /\ IsReady(fDeploy)
    /\ IF fDeploy.err # NoErr
          THEN /\ ret' = [NoReturn EXCEPT !.err = <<"deploy activity", fDeploy.err>>]
               /\ pc' = "Fatal"
               /\ result' = result
               /\ fCleanup' = [NoCleanup EXCEPT !.state = "pending", !.md = metadata]
               /\ calls' = [calls EXCEPT !["DeleteWorkdir"] = @ + 1]
          ELSE /\ result' = IF fDeploy.res.Error # NoErr
                               THEN [result EXCEPT !.Failures =
                                        Append(@, PipelineFailure("Deploy",
                                                   ErrorDetails(fDeploy.res.Error)))]
                               ELSE result
               /\ pc' = "Cleanup"
               /\ UNCHANGED <<ret, fCleanup, calls>>
    /\ UNCHANGED <<i, fClone, metadata, futures, selected, fDeploy, outOfOrder, attempt, dirs,
                   params, cli, exit, running, act>>

\* Variant of DeployGet: rDeploy.Error is not looked at.
DeployGet_dropBusiness ==
    /\ pc = "DeployGet"
    /\ IsReady(fDeploy)
    /\ IF fDeploy.err # NoErr
          THEN /\ ret' = [NoReturn EXCEPT !.err = <<"deploy activity", fDeploy.err>>]
               /\ pc' = "Fatal"
          ELSE /\ pc' = "Cleanup"
               /\ ret' = ret
    /\ UNCHANGED <<i, fClone, metadata, futures, selected, result, fDeploy,
                   fCleanup, calls, outOfOrder, attempt, dirs,
                   params, cli, exit, running, act>>

\* Variant of DeployGet: fDeploy.Get does not wait for the future.
DeployGet_noWait ==
    /\ pc = "DeployGet"
    /\ IF fDeploy.err # NoErr
          THEN /\ ret' = [NoReturn EXCEPT !.err = <<"deploy activity", fDeploy.err>>]
               /\ pc' = "Fatal"
               /\ result' = result
          ELSE /\ result' = IF fDeploy.res.Error # NoErr
                               THEN [result EXCEPT !.Failures =
                                        Append(@, PipelineFailure("Deploy",
                                                   ErrorDetails(fDeploy.res.Error)))]
                               ELSE result
               /\ pc' = "Cleanup"
               /\ ret' = ret
    /\ UNCHANGED <<i, fClone, metadata, futures, selected, fDeploy, fCleanup,
                   calls, outOfOrder, attempt, dirs,
                   params, cli, exit, running, act>>

\* Variant of DeployGet: an error of the future is recorded, not returned.
DeployGet_recordError ==
    /\ pc = "DeployGet"
    /\ IsReady(fDeploy)
    /\ result' = IF fDeploy.err # NoErr
                    THEN [result EXCEPT !.Failures =
                             Append(@, PipelineFailure("Deploy", StringDetails(fDeploy.err)))]
                    ELSE IF fDeploy.res.Error # NoErr
                    THEN [result EXCEPT !.Failures =
                             Append(@, PipelineFailure("Deploy", ErrorDetails(fDeploy.res.Error)))]
                    ELSE result
    /\ pc' = "Cleanup"
    /\ UNCHANGED <<i, fClone, metadata, futures, selected, fDeploy, fCleanup,
                   ret, calls, outOfOrder, attempt, dirs,
                   params, cli, exit, running, act>>

\* fDeploy.Get, the early return and the Deploy failure entry
\* (run.go 532-541).
DeployGet ==
    /\ pc = "DeployGet"
    /\ IsReady(fDeploy)
    /\ IF fDeploy.err # NoErr
          THEN /\ ret' = [NoReturn EXCEPT !.err = <<"deploy activity", fDeploy.err>>]
               /\ pc' = "Fatal"
               /\ result' = result
          ELSE /\ result' = IF fDeploy.res.Error # NoErr
                               THEN [result EXCEPT !.Failures =
                                        Append(@, PipelineFailure("Deploy",
                                                   ErrorDetails(fDeploy.res.Error)))]
                               ELSE result
               /\ pc' = "Cleanup"
               /\ ret' = ret
    /\ UNCHANGED <<i, fClone, metadata, futures, selected, fDeploy, fCleanup,
                   calls, outOfOrder, attempt, dirs,
                   params, cli, exit, running, act>>

\* Variant of ExecuteCleanup: the params carry no Metadata.
ExecuteCleanup_zeroMetadata ==
    /\ pc = "Cleanup"
    /\ fCleanup' = [NoCleanup EXCEPT !.state = "pending"]
    /\ calls' = [calls EXCEPT !["DeleteWorkdir"] = @ + 1]
    /\ pc' = "CleanupGet"
    /\ UNCHANGED <<i, fClone, metadata, futures, selected, result, fDeploy,
                   ret, outOfOrder, attempt, dirs,
                   params, cli, exit, running, act>>

\* fCleanup := workflow.ExecuteActivity(ctx, pa.DeleteWorkdir, ...)
\* (run.go 545-547).
ExecuteCleanup ==
    /\ pc = "Cleanup"
    /\ fCleanup' = [NoCleanup EXCEPT !.state = "pending", !.md = metadata]
    /\ calls' = [calls EXCEPT !["DeleteWorkdir"] = @ + 1]
    /\ pc' = "CleanupGet"
    /\ UNCHANGED <<i, fClone, metadata, futures, selected, result, fDeploy,
                   ret, outOfOrder, attempt, dirs,
                   params, cli, exit, running, act>>

\* Variant of CleanupGet: the error of fCleanup.Get is not checked.
CleanupGet_ignoreErr ==
    /\ pc = "CleanupGet"
    /\ IsReady(fCleanup)
    /\ ret' = [hasResult |-> TRUE, Failures |-> result.Failures, err |-> <<>>]
    /\ pc' = "Done"
    /\ UNCHANGED <<i, fClone, metadata, futures, selected, result, fDeploy,
                   fCleanup, calls, outOfOrder, attempt, dirs,
                   params, cli, exit, running, act>>

\* fCleanup.Get, the early return, and return result, nil (run.go 548-554).
CleanupGet ==
    /\ pc = "CleanupGet"
    /\ IsReady(fCleanup)
    /\ IF fCleanup.err # NoErr
          THEN /\ ret' = [NoReturn EXCEPT !.err = <<"deleteWorkdir activity", fCleanup.err>>]
               /\ pc' = "Fatal"
          ELSE /\ ret' = [hasResult |-> TRUE, Failures |-> result.Failures, err |-> <<>>]
               /\ pc' = "Done"
    /\ UNCHANGED <<i, fClone, metadata, futures, selected, result, fDeploy,
                   fCleanup, calls, outOfOrder, attempt, dirs,
                   params, cli, exit, running, act>>

----------------------------------------------------------------------------
(* The execution engine resolves pending futures while the workflow is     *)
(* blocked in Get or Select.                                               *)

Blocked == pc \in {"CloneGet", "Select", "DeployGet", "CleanupGet"}

\* GitClone resolves with (*GitCloneResult, error) (run.go 119-155).
ResolveClone ==
    /\ Blocked
    /\ fClone.state = "pending"
    /\ \/ \E w \in Workdirs :
             fClone' = [fClone EXCEPT !.state = "ready", !.res = Metadata(w)]
       \/ \E e \in ErrMsgs :
             fClone' = [fClone EXCEPT !.state = "ready", !.err = e]
    /\ UNCHANGED <<pc, i, metadata, futures, selected, result, fDeploy,
                   fCleanup, ret, calls, outOfOrder, attempt, dirs,
                   params, cli, exit, running, act>>

\* A fan-out activity resolves with a result of its type or with an error.
ResolveFanOut ==
    /\ Blocked
    /\ \E n \in ActivityNames :
          /\ futures[n].state = "pending"
          /\ \/ \E c \in Collections :
                   futures' = [futures EXCEPT ![n].state = "ready", ![n].items = c]
             \/ \E e \in ErrMsgs :
                   futures' = [futures EXCEPT ![n].state = "ready", ![n].err = e]
          /\ outOfOrder' = (outOfOrder \/
                \E m \in ActivityNames :
                   IndexOf(m) < IndexOf(n) /\ futures[m].state = "pending")
    /\ UNCHANGED <<pc, i, fClone, metadata, selected, result, fDeploy,
                   fCleanup, ret, calls, attempt, dirs,
                   params, cli, exit, running, act>>

\* GoDeploy resolves with (*GoDeployResult, error) (run.go 40-43, 374-398).
ResolveDeploy ==
    /\ Blocked
    /\ fDeploy.state = "pending"
    /\ \/ \E r \in DeployResults :
             fDeploy' = [fDeploy EXCEPT !.state = "ready", !.res = r]
       \/ \E e \in ErrMsgs :
             fDeploy' = [fDeploy EXCEPT !.state = "ready", !.err = e]
    /\ UNCHANGED <<pc, i, fClone, metadata, futures, selected, result,
                   fCleanup, ret, calls, outOfOrder, attempt, dirs,
                   params, cli, exit, running, act>>

\* DeleteWorkdir resolves with an error or nil (run.go 242-253).
ResolveCleanup ==
    /\ Blocked
    /\ fCleanup.state = "pending"
    /\ \/ fCleanup' = [fCleanup EXCEPT !.state = "ready"]
       \/ \E e \in ErrMsgs :
             fCleanup' = [fCleanup EXCEPT !.state = "ready", !.err = e]
    /\ UNCHANGED <<pc, i, fClone, metadata, futures, selected, result,
                   fDeploy, ret, calls, outOfOrder, attempt, dirs,
                   params, cli, exit, running, act>>

----------------------------------------------------------------------------

Next ==
    \/ ExecuteGitClone
    \/ CloneGet
    \/ ExecuteFanOut
    \/ Select
    \/ Process
    \/ Gating
    \/ DeployGet
    \/ ExecuteCleanup
    \/ CleanupGet
    \/ ResolveClone
    \/ ResolveFanOut
    \/ ResolveDeploy
    \/ ResolveCleanup

Spec == Init /\ [][Next]_vars

----------------------------------------------------------------------------
(* The same workflow with the attempts of each activity made explicit: the *)
(* engine runs an activity up to MaximumAttempts times (run.go 439-444);   *)
(* an attempt that returns an error or exceeds StartToCloseTimeout is      *)
(* retried, and the future resolves with the result of the first attempt   *)
(* that succeeds or with the error of the last attempt.                    *)

\* The attempt that just failed was the last one the retry policy allows.
Exhausted(a) == attempt[a] + 1 >= MaximumAttempts

\* An attempt of GitClone, seen from the workflow: it returns a
\* GitCloneResult, or an error.
AttemptClone ==
    /\ Blocked
    /\ fClone.state = "pending"
    /\ \/ \E w \in Workdirs :
             /\ fClone' = [fClone EXCEPT !.state = "ready", !.res = Metadata(w)]
             /\ attempt' = [attempt EXCEPT !["GitClone"] = 0]
       \/ \E e \in ErrMsgs :
             IF Exhausted("GitClone")
                THEN /\ fClone' = [fClone EXCEPT !.state = "ready", !.err = e]
                     /\ attempt' = [attempt EXCEPT !["GitClone"] = 0]
                ELSE /\ fClone' = fClone
                     /\ attempt' = [attempt EXCEPT !["GitClone"] = @ + 1]
    /\ UNCHANGED <<pc, i, metadata, futures, selected, result, fDeploy,
                   fCleanup, ret, calls, outOfOrder, dirs,
                   params, cli, exit, running, act>>

\* An attempt of a fan-out activity (run.go 158-239, 256-371): it returns a
\* result of its type, or an error.
AttemptFanOut ==
    /\ Blocked
    /\ \E n \in ActivityNames :
          /\ futures[n].state = "pending"
          /\ \/ \E c \in Collections :
                   /\ futures' = [futures EXCEPT ![n].state = "ready", ![n].items = c]
                   /\ attempt' = [attempt EXCEPT ![n] = 0]
             \/ \E e \in ErrMsgs :
                   IF Exhausted(n)
                      THEN /\ futures' = [futures EXCEPT ![n].state = "ready", ![n].err = e]
                           /\ attempt' = [attempt EXCEPT ![n] = 0]
                      ELSE /\ futures' = futures
                           /\ attempt' = [attempt EXCEPT ![n] = @ + 1]
          /\ outOfOrder' = (outOfOrder \/
                (futures'[n].state = "ready" /\
                 \E m \in ActivityNames :
                    IndexOf(m) < IndexOf(n) /\ futures[m].state = "pending"))
    /\ UNCHANGED <<pc, i, fClone, metadata, selected, result, fDeploy,
                   fCleanup, ret, calls, dirs,
                   params, cli, exit, running, act>>

\* An attempt of GoDeploy (run.go 374-398).
AttemptDeploy ==
    /\ Blocked
    /\ fDeploy.state = "pending"
    /\ \/ \E r \in DeployResults :
             /\ fDeploy' = [fDeploy EXCEPT !.state = "ready", !.res = r]
             /\ attempt' = [attempt EXCEPT !["GoDeploy"] = 0]
       \/ \E e \in ErrMsgs :
             IF Exhausted("GoDeploy")
                THEN /\ fDeploy' = [fDeploy EXCEPT !.state = "ready", !.err = e]
                     /\ attempt' = [attempt EXCEPT !["GoDeploy"] = 0]
                ELSE /\ fDeploy' = fDeploy
                     /\ attempt' = [attempt EXCEPT !["GoDeploy"] = @ + 1]
    /\ UNCHANGED <<pc, i, fClone, metadata, futures, selected, result,
                   fCleanup, ret, calls, outOfOrder, dirs,
                   params, cli, exit, running, act>>

\* An attempt of DeleteWorkdir, seen from the workflow: it returns nil or an
\* error.
AttemptCleanup ==
    /\ Blocked
    /\ fCleanup.state = "pending"
    /\ \/ /\ fCleanup' = [fCleanup EXCEPT !.state = "ready"]
          /\ attempt' = [attempt EXCEPT !["DeleteWorkdir"] = 0]
       \/ \E e \in ErrMsgs :
             IF Exhausted("DeleteWorkdir")
                THEN /\ fCleanup' = [fCleanup EXCEPT !.state = "ready", !.err = e]
                     /\ attempt' = [attempt EXCEPT !["DeleteWorkdir"] = 0]
                ELSE /\ fCleanup' = fCleanup
                     /\ attempt' = [attempt EXCEPT !["DeleteWorkdir"] = @ + 1]
    /\ UNCHANGED <<pc, i, fClone, metadata, futures, selected, result,
                   fDeploy, ret, calls, outOfOrder, dirs,
                   params, cli, exit, running, act>>

NextRetry ==
    \/ ExecuteGitClone
    \/ CloneGet
    \/ ExecuteFanOut
    \/ Select
    \/ Process
    \/ Gating
    \/ DeployGet
    \/ ExecuteCleanup
    \/ CleanupGet
    \/ AttemptClone
    \/ AttemptFanOut
    \/ AttemptDeploy
    \/ AttemptCleanup

SpecRetry == Init /\ [][NextRetry]_vars

----------------------------------------------------------------------------
(* The same workflow with the bodies of GitClone and DeleteWorkdir and the *)
(* directories they create and remove; the other activities resolve as in  *)
(* Spec.                                                                   *)

\* An attempt of PipelineActivity.GitClone (run.go 119-155).  The workflow
\* passes no workdir (run.go 446-448), so the attempt first creates a
\* temporary directory; it fails in os.MkdirTemp (no directory), or in git
\* clone (the directory stays), or it succeeds and returns the directory as
\* Metadata.Workdir.  A failed attempt is retried as in AttemptClone.
GitCloneAttempt ==
    /\ Blocked
    /\ fClone.state = "pending"
    /\ \/ /\ dirs' = dirs \cup {TempDir(attempt["GitClone"] + 1)}
          /\ fClone' = [fClone EXCEPT !.state = "ready",
                            !.res = Metadata(TempDir(attempt["GitClone"] + 1))]
          /\ attempt' = [attempt EXCEPT !["GitClone"] = 0]
       \/ \E e \in ErrMsgs, created \in BOOLEAN :
             /\ dirs' = IF created THEN dirs \cup {TempDir(attempt["GitClone"] + 1)}
                                   ELSE dirs
             /\ IF Exhausted("GitClone")
                   THEN /\ fClone' = [fClone EXCEPT !.state = "ready", !.err = e]
                        /\ attempt' = [attempt EXCEPT !["GitClone"] = 0]
                   ELSE /\ fClone' = fClone
                        /\ attempt' = [attempt EXCEPT !["GitClone"] = @ + 1]
    /\ UNCHANGED <<pc, i, metadata, futures, selected, result, fDeploy,
                   fCleanup, ret, calls, outOfOrder,
                   params, cli, exit, running, act>>

\* An attempt of PipelineActivity.DeleteWorkdir (run.go 242-253):
\* os.RemoveAll removes the directory of the metadata, or fails and leaves
\* it.  A failed attempt is retried as in AttemptCleanup.
DeleteWorkdirAttempt ==
    /\ Blocked
    /\ fCleanup.state = "pending"
    /\ \/ /\ dirs' = dirs \ {fCleanup.md.Workdir}
          /\ fCleanup' = [fCleanup EXCEPT !.state = "ready"]
          /\ attempt' = [attempt EXCEPT !["DeleteWorkdir"] = 0]
       \/ \E e \in ErrMsgs :
             /\ dirs' = dirs
             /\ IF Exhausted("DeleteWorkdir")
                   THEN /\ fCleanup' = [fCleanup EXCEPT !.state = "ready", !.err = e]
                        /\ attempt' = [attempt EXCEPT !["DeleteWorkdir"] = 0]
                   ELSE /\ fCleanup' = fCleanup
                        /\ attempt' = [attempt EXCEPT !["DeleteWorkdir"] = @ + 1]
    /\ UNCHANGED <<pc, i, fClone, metadata, futures, selected, result,
                   fDeploy, ret, calls, outOfOrder,
                   params, cli, exit, running, act>>

NextWorkdir ==
    \/ ExecuteGitClone
    \/ CloneGet
    \/ ExecuteFanOut
    \/ Select
    \/ Process
    \/ Gating
    \/ DeployGet
    \/ ExecuteCleanup
    \/ CleanupGet
    \/ GitCloneAttempt
    \/ ResolveFanOut
    \/ ResolveDeploy
    \/ DeleteWorkdirAttempt

SpecWorkdir == Init /\ [][NextWorkdir]_vars

----------------------------------------------------------------------------
(* The run-submission process: RunPipeline reads and validates the input,  *)
(* starts PipelineWorkflow, waits for its result and the process exits     *)
(* (part_001 22-66, main.go 39-42).  The workflow runs as in Spec.         *)

\* The input files: with and without a git_url.
ParamsSet == {[GitURL |-> ""], [GitURL |-> gitUrl]}

\* Variant of Validate: every input is accepted.
Validate_acceptAll(pp) == NoErr

\* PipelineParams.Validate (run.go 418-423).
Validate(pp) == IF pp.GitURL = "" THEN "GitURL is required" ELSE NoErr

\* The variables of the workflow other than pc.
workflowVars == <<i, fClone, metadata, futures, selected, result, fDeploy,
                  fCleanup, ret, calls, outOfOrder, attempt, dirs>>

\* The process is started for a run that does not exist yet.
InitRun ==
    /\ pc = "NotStarted"
    /\ i = 0
    /\ fClone = NoClone
    /\ metadata = ZeroMetadata
    /\ futures = [n \in ActivityNames |-> NoFuture]
    /\ selected = {}
    /\ result = [Failures |-> <<>>]
    /\ fDeploy = NoDeploy
    /\ fCleanup = NoCleanup
    /\ ret = NoReturn
    /\ calls = [n \in AllActivities |-> 0]
    /\ outOfOrder = FALSE
    /\ attempt = [n \in AllActivities |-> 0]
    /\ dirs = {}
    /\ params = [GitURL |-> ""]
    /\ cli = "Load"
    /\ exit = NoExit
    /\ running = {}
    /\ act = NoAct

\* The environment is processed, the client connects, the input file is
\* read and unmarshalled (part_001 26-49): any of these fails and
\* RunPipeline returns the error, or params holds the input.
LoadInput ==
    /\ cli = "Load"
    /\ \/ /\ cli' = "LoadError"
          /\ exit' = "1"
          /\ params' = params
       \/ \E pp \in ParamsSet :
             /\ params' = pp
             /\ cli' = "Validate"
             /\ exit' = exit
    /\ UNCHANGED <<pc, workflowVars, running, act>>

\* params.Validate() and the return of its error (part_001 50-52).
ValidateInput ==
    /\ cli = "Validate"
    /\ IF Validate(params) # NoErr
          THEN /\ cli' = "ValidationError"
               /\ exit' = "1"
          ELSE /\ cli' = "Execute"
               /\ exit' = exit
    /\ UNCHANGED <<pc, workflowVars, params, running, act>>

\* tc.ExecuteWorkflow (part_001 54-60): the start fails, or the workflow is
\* started with params.
ExecuteWorkflow ==
    /\ cli = "Execute"
    /\ \/ /\ cli' = "StartError"
          /\ exit' = "1"
          /\ pc' = pc
       \/ /\ cli' = "Get"
          /\ exit' = exit
          /\ pc' = "Start"
    /\ UNCHANGED <<workflowVars, params, running, act>>

\* Variant of WorkflowGet: the error of Get is not returned.
WorkflowGet_ignoreErr ==
    /\ cli = "Get"
    /\ pc \in {"Done", "Fatal"}
    /\ cli' = "Returned"
    /\ exit' = "0"
    /\ UNCHANGED <<pc, workflowVars, params, running, act>>

\* fWorkflow.Get returns when the workflow has returned (part_001 62-65):
\* its error makes RunPipeline return an error and main exit with 1
\* (main.go 39-42), otherwise main returns and the process exits with 0.
WorkflowGet ==
    /\ cli = "Get"
    /\ pc \in {"Done", "Fatal"}
    /\ cli' = "Returned"
    /\ exit' = IF ret.err # <<>> THEN "1" ELSE "0"
    /\ UNCHANGED <<pc, workflowVars, params, running, act>>

\* fWorkflow.Get returns an error of its own before it has the result of
\* the workflow (part_001 62-64): ctx is cancelled by os.Interrupt
\* (part_001 23), or the call to the server fails.  The workflow goes on.
WorkflowGetFails ==
    /\ cli = "Get"
    /\ cli' = "GetError"
    /\ exit' = "1"
    /\ UNCHANGED <<pc, workflowVars, params, running, act>>

NextRun ==
    \/ LoadInput
    \/ ValidateInput
    \/ ExecuteWorkflow
    \/ WorkflowGet
    \/ WorkflowGetFails
    \/ ExecuteGitClone
    \/ CloneGet
    \/ ExecuteFanOut
    \/ Select
    \/ Process
    \/ Gating
    \/ DeployGet
    \/ ExecuteCleanup
    \/ CleanupGet
    \/ ResolveClone
    \/ ResolveFanOut
    \/ ResolveDeploy
    \/ ResolveCleanup

SpecRun == InitRun /\ [][NextRun]_vars

----------------------------------------------------------------------------
(* Progress: the workflow function runs whenever it can, and the engine    *)
(* resolves every future that was issued (the timeout and the retry policy *)
(* of run.go 439-444 bound the time an activity takes).                    *)

\* A step of the workflow function.
WorkflowStep ==
    \/ ExecuteGitClone
    \/ CloneGet
    \/ ExecuteFanOut
    \/ Select
    \/ Process
    \/ Gating
    \/ DeployGet
    \/ ExecuteCleanup
    \/ CleanupGet

\* A step of the engine.
EngineStep ==
    \/ ResolveClone
    \/ ResolveFanOut
    \/ ResolveDeploy
    \/ ResolveCleanup

NextFair == WorkflowStep \/ EngineStep

SpecFair ==
    /\ Init
    /\ [][NextFair]_vars
    /\ WF_vars(WorkflowStep)
    /\ WF_vars(EngineStep)

----------------------------------------------------------------------------
(* Timeouts.  The engine gives every attempt StartToCloseTimeout = 10 s    *)
(* (run.go 439-441) and, when the time is over, counts the attempt as      *)
(* failed on its own; after the last attempt it resolves the future with   *)
(* the timeout error.  On the worker the attempt ends when the activity    *)
(* function returns; the activities run their command with                 *)
(* exec.CommandContext and cmd.Run (run.go 169-176, 203-210, ...), which   *)
(* return only after the command, killed at the deadline, and the copying  *)
(* of its output are over.  So an attempt that timed out may still be      *)
(* executing in the workdir for a while.  As in Spec a future resolves     *)
(* once, after the retries; here the last attempt may be a timeout.        *)

\* The last attempt of a fan-out activity times out: the engine resolves the
\* future with the error; the attempt has ended on the worker or is still
\* executing.
TimeoutFanOut ==
    /\ Blocked
    /\ \E n \in ActivityNames :
          /\ futures[n].state = "pending"
          /\ \E e \in ErrMsgs :
                futures' = [futures EXCEPT ![n].state = "ready", ![n].err = e]
          /\ outOfOrder' = (outOfOrder \/
                \E m \in ActivityNames :
                   IndexOf(m) < IndexOf(n) /\ futures[m].state = "pending")
          /\ \/ running' = running
             \/ running' = running \cup {n}
    /\ UNCHANGED <<pc, i, fClone, metadata, selected, result, fDeploy,
                   fCleanup, ret, calls, attempt, dirs,
                   params, cli, exit, act>>

\* The last attempt of GoDeploy times out (its select on ctx.Done is at
\* run.go 384-389).
TimeoutDeploy ==
    /\ Blocked
    /\ fDeploy.state = "pending"
    /\ \E e \in ErrMsgs :
          fDeploy' = [fDeploy EXCEPT !.state = "ready", !.err = e]
    /\ \/ running' = running
       \/ running' = running \cup {"GoDeploy"}
    /\ UNCHANGED <<pc, i, fClone, metadata, futures, selected, result,
                   fCleanup, ret, calls, outOfOrder, attempt, dirs,
                   params, cli, exit, act>>

\* A timed-out attempt ends: its activity function returns.
AttemptEnds ==
    /\ \E n \in running : running' = running \ {n}
    /\ UNCHANGED <<pc, i, fClone, metadata, futures, selected, result,
                   fDeploy, fCleanup, ret, calls, outOfOrder, attempt, dirs,
                   params, cli, exit, act>>

NextTimeout ==
    \/ ExecuteGitClone
    \/ CloneGet
    \/ ExecuteFanOut
    \/ Select
    \/ Process
    \/ Gating
    \/ DeployGet
    \/ ExecuteCleanup
    \/ CleanupGet
    \/ ResolveClone
    \/ ResolveFanOut
    \/ ResolveDeploy
    \/ ResolveCleanup
    \/ TimeoutFanOut
    \/ TimeoutDeploy
    \/ AttemptEnds

SpecTimeout == Init /\ [][NextTimeout]_vars

----------------------------------------------------------------------------
(* The bodies of the fan-out activities (run.go 158-239, 256-371).  Each   *)
(* runs one command with cmd.Run and turns the way it ended and its        *)
(* standard output into a result or an error.                              *)

\* A line of standard output: empty, a JSON object as `go test -json`
\* prints them (its Action and Test fields), or any other text.
EmptyLine == [kind |-> "empty", text |-> "", Action |-> "", Test |-> ""]
TextLine(t) == [kind |-> "text", text |-> t, Action |-> "", Test |-> ""]
JSONLine(a, t) ==
    [kind |-> "json", text |-> "{\"Action\":\"" \o a \o "\",\"Test\":\"" \o t \o "\"}",
     Action |-> a, Test |-> t]

\* The byte ',' that GoTest puts between lines (run.go 216-218).
Comma == [kind |-> "comma", text |-> ",", Action |-> "", Test |-> ""]

\* A run of a command: cmd.Run returned nil ("ok"), an *exec.ExitError
\* ("exit") or another error ("error"); lines is
\* strings.Split(stdout.String(), "\n").
CmdRun(status, lines) == [status |-> status, lines |-> lines]

\* The body that GoTest assembles between '[' and ']' (run.go 212-220):
\* every line, and a ',' after each line but the last two.  An empty line
\* adds no byte.
RECURSIVE BodyFrom(_, _)
BodyFrom(lines, k) ==
    IF k > Len(lines) THEN <<>>
    ELSE (IF lines[k].kind = "empty" THEN <<>> ELSE <<lines[k]>>)
         \o (IF k - 1 < Len(lines) - 2 THEN <<Comma>> ELSE <<>>)
         \o BodyFrom(lines, k + 1)

\* GoTestCLIOutput as json.Unmarshal fills it from a JSON line
\* (run.go 56-61; Package and Elapsed are not used by the workflow).
GoTestCLIOutput(line) == [Action |-> line.Action, Test |-> line.Test]

\* json.Unmarshal of '[' body ']' into []GoTestCLIOutput (run.go 221-225):
\* the body has to be empty or JSON objects separated by single commas.
Unmarshal(body) ==
    IF Len(body) = 0 THEN [ok |-> TRUE, value |-> <<>>]
    ELSE IF /\ Len(body) % 2 = 1
            /\ \A k \in 1..Len(body) :
                  body[k].kind = IF k % 2 = 1 THEN "json" ELSE "comma"
         THEN [ok |-> TRUE,
               value |-> [k \in 1..((Len(body) + 1) \div 2) |-> GoTestCLIOutput(body[2 * k - 1])]]
         ELSE [ok |-> FALSE, value |-> <<>>]

\* line.Action == "fail" && line.Test != "" (run.go 227).
IsFailedTest(t) == t.Action = "fail" /\ t.Test # ""

\* What an activity returns: its error, and the collection of its result.
Return(err, items) == [err |-> err, items |-> items]

\* Variant of GoTest: every non-zero exit is returned as an error.
GoTest_exitIsError(run) ==
    IF run.status = "ok" THEN Return(NoErr, <<>>)
    ELSE Return("running go test command", <<>>)

\* PipelineActivity.GoTest (run.go 190-239).
GoTest(run) ==
    IF run.status = "ok" THEN Return(NoErr, <<>>)
    ELSE IF run.status = "exit"
       THEN LET testOutput == Unmarshal(BodyFrom(run.lines, 1))
            IN  IF ~testOutput.ok
                   THEN Return("unmarshalling JSON output", <<>>)
                   ELSE Return(NoErr, SelectSeq(testOutput.value, IsFailedTest))
       ELSE Return("running go test command", <<>>)

\* The non-empty lines of the output, as strings (run.go 179-184, 356-361).
IsNonEmpty(line) == line.kind # "empty"
NonEmptyLines(lines) ==
    [k \in 1..Len(SelectSeq(lines, IsNonEmpty)) |-> SelectSeq(lines, IsNonEmpty)[k].text]

\* PipelineActivity.GoFmt (run.go 158-187).
GoFmt(run) ==
    IF run.status # "ok" THEN Return("running go fmt command", <<>>)
    ELSE Return(NoErr, NonEmptyLines(run.lines))

\* PipelineActivity.GoModTidy (run.go 256-279).
GoModTidy(run) ==
    IF run.status # "ok" THEN Return("running go mod tidy command", <<>>)
    ELSE Return(NoErr, <<>>)

\* Variant of GoBuild: after a non-zero exit the lines of the output are
\* returned as FailedFiles.
GoBuild_reportFiles(run) ==
    IF run.status = "error" THEN Return("running go build command", <<>>)
    ELSE IF run.status = "exit" THEN Return(NoErr, NonEmptyLines(run.lines))
    ELSE Return(NoErr, <<>>)

\* PipelineActivity.GoBuild (run.go 282-306).
GoBuild(run) ==
    IF run.status # "ok" THEN Return("running go build command", <<>>)
    ELSE Return(NoErr, <<>>)

\* PipelineActivity.GoGenerate (run.go 309-333).
GoGenerate(run) ==
    IF run.status # "ok" THEN Return("running go generate command", <<>>)
    ELSE Return(NoErr, <<>>)

\* PipelineActivity.GolangCILint (run.go 336-371).
GolangCILint(run) ==
    IF run.status = "ok" THEN Return(NoErr, <<>>)
    ELSE IF run.status = "exit" THEN Return(NoErr, NonEmptyLines(run.lines))
    ELSE Return("running golangci-lint command", <<>>)

----------------------------------------------------------------------------
(* GoTest on its own: one call of the activity on a run of `go test`, and  *)
(* what the "Process results" loop makes of the result.                    *)

\* The lines `go test` may print.
TestLines ==
    {EmptyLine, TextLine("FAIL"), JSONLine("fail", "TestA"), JSONLine("fail", "TestB"),
     JSONLine("fail", ""), JSONLine("pass", "TestA")}

\* Longest output, in lines.
MaxLines == 3

GoTestRuns ==
    {CmdRun(st, ls) : st \in {"ok", "exit", "error"},
                      ls \in UNION {[1..k -> TestLines] : k \in 1..MaxLines}}

\* GoTest has been called and its command has run.
InitGoTest ==
    /\ pc = "NotStarted"
    /\ i = 0
    /\ fClone = NoClone
    /\ metadata = ZeroMetadata
    /\ futures = [n \in ActivityNames |-> NoFuture]
    /\ selected = {}
    /\ result = [Failures |-> <<>>]
    /\ fDeploy = NoDeploy
    /\ fCleanup = NoCleanup
    /\ ret = NoReturn
    /\ calls = [n \in AllActivities |-> 0]
    /\ outOfOrder = FALSE
    /\ attempt = [n \in AllActivities |-> 0]
    /\ dirs = {}
    /\ params = [GitURL |-> gitUrl]
    /\ cli = "none"
    /\ exit = NoExit
    /\ running = {}
    /\ \E run \in GoTestRuns :
          act = [name |-> "GoTest", state |-> "called", run |-> run,
                 out |-> Return(NoErr, <<>>), entries |-> <<>>]

\* The activity returns.
GoTestReturns ==
    /\ act.name = "GoTest"
    /\ act.state = "called"
    /\ act' = [act EXCEPT !.state = "returned", !.out = GoTest(act.run)]
    /\ UNCHANGED <<pc, workflowVars, params, cli, exit, running>>

\* The result reaches the workflow through the future, and the iteration
\* of the "Process results" loop for GoTest handles it (run.go 487-492,
\* 524-526).
GoTestProcessed ==
    /\ act.name = "GoTest"
    /\ act.state = "returned"
    /\ act.out.err = NoErr
    /\ act' = [act EXCEPT !.state = "processed",
                  !.entries = ProcessResult("GoTest",
                       [NoFuture EXCEPT !.state = "ready", !.items = act.out.items])]
    /\ UNCHANGED <<pc, workflowVars, params, cli, exit, running>>

NextGoTest ==
    \/ GoTestReturns
    \/ GoTestProcessed

SpecGoTest == InitGoTest /\ [][NextGoTest]_vars

----------------------------------------------------------------------------
(* The workflow with the bodies of the fan-out activities: every attempt   *)
(* of a fan-out activity runs its command and returns what its body makes  *)
(* of the run; the engine retries a returned error as in SpecRetry.        *)

\* The lines a command may print: `go test -json` prints records, the
\* other commands print text.
OutputLines(n) ==
    IF n = "GoTest" THEN {JSONLine("fail", "TestA")} ELSE {TextLine("main.go")}

\* The runs of the command of an activity: up to MaxItems lines, each ended
\* by a newline.
CmdRuns(n) ==
    {CmdRun(st, ls \o <<EmptyLine>>) :
        st \in {"ok", "exit", "error"},
        ls \in UNION {[1..k -> OutputLines(n)] : k \in 0..MaxItems}}

\* The activity function registered under each name (worker.go 41-47).
Body(n, run) ==
    CASE n = "GoTest" -> GoTest(run)
      [] n = "GoFmt" -> GoFmt(run)
      [] n = "GoModTidy" -> GoModTidy(run)
      [] n = "GoBuild" -> GoBuild(run)
      [] n = "GoGenerate" -> GoGenerate(run)
      [] n = "GolangCILint" -> GolangCILint(run)

\* An attempt of a fan-out activity runs its command.
RunFanOut ==
    /\ Blocked
    /\ \E n \in ActivityNames :
          /\ futures[n].state = "pending"
          /\ \E run \in CmdRuns(n) :
                IF Body(n, run).err = NoErr
                   THEN /\ futures' = [futures EXCEPT ![n].state = "ready",
                                           ![n].items = Body(n, run).items]
                        /\ attempt' = [attempt EXCEPT ![n] = 0]
                   ELSE IF Exhausted(n)
                      THEN /\ futures' = [futures EXCEPT ![n].state = "ready",
                                              ![n].err = Body(n, run).err]
                           /\ attempt' = [attempt EXCEPT ![n] = 0]
                      ELSE /\ futures' = futures
                           /\ attempt' = [attempt EXCEPT ![n] = @ + 1]
          /\ outOfOrder' = (outOfOrder \/
                (futures'[n].state = "ready" /\
                 \E m \in ActivityNames :
                    IndexOf(m) < IndexOf(n) /\ futures[m].state = "pending"))
    /\ UNCHANGED <<pc, i, fClone, metadata, selected, result, fDeploy,
                   fCleanup, ret, calls, dirs,
                   params, cli, exit, running, act>>

NextBodies ==
    \/ ExecuteGitClone
    \/ CloneGet
    \/ ExecuteFanOut
    \/ Select
    \/ Process
    \/ Gating
    \/ DeployGet
    \/ ExecuteCleanup
    \/ CleanupGet
    \/ AttemptClone
    \/ RunFanOut
    \/ AttemptDeploy
    \/ AttemptCleanup

SpecBodies == Init /\ [][NextBodies]_vars

----------------------------------------------------------------------------
(* Vocabulary of the properties *)

\* Outcome of a fan-out step, read off its resolved handle.
Passed(n) == futures[n].state = "ready" /\ futures[n].err = NoErr /\ futures[n].items = <<>>
Failed(n) == futures[n].state = "ready" /\ futures[n].err = NoErr /\ futures[n].items # <<>>
InfraError(n) == futures[n].state = "ready" /\ futures[n].err # NoErr

\* The run got past the clone (a fatal clone error ends it before).
CloneSucceeded == fClone.state = "ready" /\ fClone.err = NoErr /\ pc # "CloneGet"

\* The "Process results" loop is over / the deploy decision is taken.
AfterProcess ==
    \/ pc \in {"Gating", "DeployGet", "Cleanup", "CleanupGet", "Done"}
    \/ pc = "Fatal" /\ CloneSucceeded
AfterGating == AfterProcess /\ pc # "Gating"

Terminated == pc \in {"Done", "Fatal"}

DeployInvoked == calls["GoDeploy"] > 0
CleanupInvoked == calls["DeleteWorkdir"] > 0

\* The issue order of the report, Deploy last.
FixedOrder == <<"GoTest", "GoFmt", "GoModTidy", "GoBuild", "GoGenerate", "GolangCILint", "Deploy">>
Position(name) == CHOOSE k \in 1..Len(FixedOrder) : FixedOrder[k] = name

\* Number of entries of a failure list named after a step.
EntriesOf(fs, name) == Cardinality({k \in 1..Len(fs) : fs[k].Activity = name})

\* The entries of a failure list that come from the fan-out steps.
IsFanOutEntry(e) == e.Activity # "Deploy"
FanOutEntries(fs) == SelectSeq(fs, IsFanOutEntry)

\* A details payload that counts as empty: nil, "" or an empty collection.
EmptyDetails(d) == d = NilDetails \/ d = StringDetails("") \/ d = SliceDetails(<<>>)

----------------------------------------------------------------------------
(* Properties *)

\* C1: when at least one fan-out step reports a non-empty failure, GoDeploy
\* is never invoked, whatever the other steps do and in whatever order the
\* handles resolve.
T_C1_NoDeployOnFailure ==
    (\E n \in ActivityNames : Failed(n)) => ~DeployInvoked /\ fDeploy.state = "none"

W_C1 ==
    /\ pc = "Done"
    /\ \E n \in ActivityNames : Failed(n)
    /\ \E n \in ActivityNames : Passed(n)
    /\ ~DeployInvoked

T_C3_ReportInIssueOrder ==
    /\ \A j, k \in 1..Len(result.Failures) :
          j < k => Position(result.Failures[j].Activity) < Position(result.Failures[k].Activity)
    /\ ret.hasResult => ret.Failures = result.Failures

W_C3 ==
    /\ pc = "Done"
    /\ outOfOrder
    /\ Failed("GolangCILint") /\ InfraError("GoTest")
    /\ Len(ret.Failures) >= 2
    /\ ret.Failures[1].Activity = "GoTest"

\* C4: in every run in which Clone succeeded, DeleteWorkdir is invoked once
\* the deploy decision is taken, whatever the report holds.
C4_CleanupAfterClone ==
    (Terminated /\ CloneSucceeded) => CleanupInvoked

\* C5: GoDeploy is never issued before all six fan-out handles have
\* resolved.
T_C5_DeployAfterFanIn ==
    fDeploy.state # "none" => \A n \in ActivityNames : futures[n].state = "ready"

W_C5 ==
    /\ fDeploy.state = "pending"
    /\ outOfOrder
    /\ \A n \in ActivityNames : futures[n].state = "ready"

\* C6: Deploy proceeds if and only if no entry of the recorded failure list
\* has a non-empty details payload (nil, "" and an empty collection are
\* empty), for every combination of outcomes of the six fan-out steps.
T_C6_GatingIffNoNonEmptyFailure ==
    AfterGating =>
        (DeployInvoked <=>
            \A k \in 1..Len(FanOutEntries(result.Failures)) :
                EmptyDetails(FanOutEntries(result.Failures)[k].Details))

W_C6 ==
    /\ AfterGating
    /\ ~DeployInvoked
    /\ \E n \in ActivityNames : InfraError(n)
    /\ \A n \in ActivityNames : ~Failed(n)
    /\ \E n \in ActivityNames : Passed(n)

\* C7 as stated: a fan-out step whose failure details are an empty
\* collection does not block deployment and still has an entry in the
\* report.
C7_Original ==
    \A n \in ActivityNames :
        (AfterProcess /\ Passed(n)) => EntriesOf(result.Failures, n) = 1

\* C7 amended: a fan-out step whose returned collection is empty does not
\* block deployment and has no entry in the report: no fan-out entry of the
\* report has empty details, and deployment is blocked only by a step that
\* returned a non-empty collection or whose handle resolved with an error.
T_C7_EmptyNeitherBlocksNorRecorded ==
    /\ \A n \in ActivityNames :
          (AfterProcess /\ Passed(n)) => EntriesOf(result.Failures, n) = 0
    /\ \A k \in 1..Len(result.Failures) :
          IsFanOutEntry(result.Failures[k]) => ~EmptyDetails(result.Failures[k].Details)
    /\ (AfterGating /\ ~DeployInvoked) =>
          \E n \in ActivityNames : Failed(n) \/ InfraError(n)

W_C7 ==
    /\ pc = "Done"
    /\ \A n \in ActivityNames : Passed(n)
    /\ DeployInvoked
    /\ FanOutEntries(ret.Failures) = <<>>

\* C8: after classification the report has exactly one entry, named after
\* the step, for each fan-out step that reported Failed or resolved with
\* InfraError, and none for a step that Passed.
T_C8_OneEntryPerFailingStep ==
    AfterProcess =>
        /\ \A n \in ActivityNames :
              EntriesOf(result.Failures, n) = IF Failed(n) \/ InfraError(n) THEN 1 ELSE 0
        /\ Len(FanOutEntries(result.Failures)) =
              Cardinality({n \in ActivityNames : Failed(n) \/ InfraError(n)})
        /\ \A k \in 1..Len(result.Failures) :
              result.Failures[k].Activity \in ActivityNames \cup {"Deploy"}

W_C8 ==
    /\ pc = "Done"
    /\ {n \in ActivityNames : Failed(n)} = {"GoTest", "GoBuild", "GoGenerate"}
    /\ \A n \in ActivityNames : ~InfraError(n)
    /\ Len(ret.Failures) = 3

\* C9: a fan-out handle that resolves with InfraError is recorded as a
\* failure of that step with the error message as details, and the run is
\* not aborted: every other step is still classified, and the run goes on to
\* the gating and to DeleteWorkdir (it can only fail later, in
\* DeleteWorkdir itself).
T_C9_FanOutInfraErrorRecorded ==
    \A n \in ActivityNames :
        (InfraError(n) /\ pc \notin {"Select", "Process"}) =>
            /\ \E k \in 1..Len(result.Failures) :
                  result.Failures[k] = PipelineFailure(n, StringDetails(futures[n].err))
            /\ \A m \in ActivityNames :
                  Failed(m) => \E k \in 1..Len(result.Failures) :
                                  result.Failures[k] = PipelineFailure(m, SliceDetails(futures[m].items))
            /\ pc = "Fatal" => fCleanup.state = "ready" /\ fCleanup.err # NoErr
            /\ Terminated => CleanupInvoked

W_C9 ==
    /\ pc = "Done"
    /\ InfraError("GoFmt")
    /\ Failed("GoGenerate")
    /\ CleanupInvoked
    /\ Len(ret.Failures) = 2

\* C10 as stated: an InfraError of any step is fatal to the run.
C10_Original ==
    pc = "Done" =>
        /\ \A n \in ActivityNames : ~InfraError(n)
        /\ fClone.err = NoErr /\ fDeploy.err = NoErr /\ fCleanup.err = NoErr

\* C10 amended: an InfraError of GitClone, GoDeploy or DeleteWorkdir is fatal
\* to the run and aborts the remaining steps; an InfraError of a fan-out step
\* is not fatal: it is recorded in the report and prevents the deployment.
T_C10_InfraErrorFatalOutsideFanOut ==
    /\ (fClone.state = "ready" /\ fClone.err # NoErr /\ pc # "CloneGet") =>
          /\ pc = "Fatal" /\ ~ret.hasResult /\ ret.err # <<>>
          /\ \A a \in AllActivities \ {"GitClone"} : calls[a] = 0
    /\ (fDeploy.state = "ready" /\ fDeploy.err # NoErr /\ pc # "DeployGet") =>
          /\ pc = "Fatal" /\ ~ret.hasResult /\ ret.err # <<>>
          /\ calls["DeleteWorkdir"] = 0
    /\ (fCleanup.state = "ready" /\ fCleanup.err # NoErr /\ pc # "CleanupGet") =>
          pc = "Fatal" /\ ~ret.hasResult /\ ret.err # <<>>
    /\ \A n \in ActivityNames :
          (InfraError(n) /\ AfterProcess) =>
              /\ EntriesOf(result.Failures, n) = 1
              /\ ~DeployInvoked
              /\ pc = "Fatal" => fCleanup.err # NoErr
    /\ pc = "Fatal" => fClone.err # NoErr \/ fDeploy.err # NoErr \/ fCleanup.err # NoErr

W_C10 ==
    /\ pc = "Done"
    /\ ret.hasResult
    /\ \E n \in ActivityNames : InfraError(n)
    /\ \A n \in ActivityNames : ~Failed(n)

\* C11: when GitClone's handle resolves with InfraError the run ends fatally
\* with no report, no fan-out activity is issued, and neither GoDeploy nor
\* DeleteWorkdir is invoked.
T_C11_CloneErrorFatal ==
    (fClone.state = "ready" /\ fClone.err # NoErr /\ pc # "CloneGet") =>
        /\ pc = "Fatal"
        /\ ret = [NoReturn EXCEPT !.err = <<"GitClone activity", fClone.err>>]
        /\ \A n \in ActivityNames : futures[n].state = "none" /\ calls[n] = 0
        /\ fDeploy.state = "none" /\ calls["GoDeploy"] = 0
        /\ fCleanup.state = "none" /\ calls["DeleteWorkdir"] = 0
        /\ metadata = ZeroMetadata

W_C11 ==
    /\ pc = "Fatal"
    /\ fClone.state = "ready" /\ fClone.err # NoErr
    /\ calls["GitClone"] = 1

\* C12: when the gating passes and GoDeploy's handle resolves with
\* InfraError, the run ends fatally: the error is returned instead of the
\* report and DeleteWorkdir is not invoked.
T_C12_DeployErrorFatalNoCleanup ==
    (fDeploy.state = "ready" /\ fDeploy.err # NoErr /\ pc # "DeployGet") =>
        /\ pc = "Fatal"
        /\ ret = [NoReturn EXCEPT !.err = <<"deploy activity", fDeploy.err>>]
        /\ fCleanup.state = "none" /\ calls["DeleteWorkdir"] = 0
        /\ ~hasErrors(result)

W_C12 ==
    /\ pc = "Fatal"
    /\ fDeploy.state = "ready" /\ fDeploy.err # NoErr
    /\ \A n \in ActivityNames : Passed(n)

\* C13: when GoDeploy resolves with a result that carries an error (a
\* business failure), a Deploy entry is appended to the report, the run is
\* not aborted and DeleteWorkdir is still invoked.
T_C13_DeployBusinessFailureRecorded ==
    (fDeploy.state = "ready" /\ fDeploy.err = NoErr /\ fDeploy.res.Error # NoErr
        /\ pc # "DeployGet") =>
        /\ Len(result.Failures) > 0
        /\ result.Failures[Len(result.Failures)] =
              PipelineFailure("Deploy", ErrorDetails(fDeploy.res.Error))
        /\ EntriesOf(result.Failures, "Deploy") = 1
        /\ pc \in {"Cleanup", "CleanupGet", "Done", "Fatal"}
        /\ pc # "Cleanup" => CleanupInvoked
        /\ pc = "Fatal" => fCleanup.state = "ready" /\ fCleanup.err # NoErr
        /\ pc = "Done" => ret.hasResult /\ ret.Failures = result.Failures

W_C13 ==
    /\ pc = "Done"
    /\ fDeploy.res.Error # NoErr
    /\ CleanupInvoked
    /\ ret.Failures = <<PipelineFailure("Deploy", ErrorDetails(fDeploy.res.Error))>>

\* C14: a run ends with exactly one of a report and a fatal error; it ends
\* with the error exactly when the handle of GitClone, GoDeploy or
\* DeleteWorkdir resolved with InfraError (an error of DeleteWorkdir discards
\* the complete report), and never because of business failures.
T_C14_ReportXorFatal ==
    /\ ~Terminated => ret = NoReturn
    /\ Terminated =>
          /\ ret.hasResult # (ret.err # <<>>)
          /\ (pc = "Done") = ret.hasResult
          /\ (pc = "Fatal") =
                (fClone.err # NoErr \/ fDeploy.err # NoErr \/ fCleanup.err # NoErr)
          /\ ~ret.hasResult => ret.Failures = <<>>

W_C14 ==
    /\ pc = "Fatal"
    /\ fCleanup.state = "ready" /\ fCleanup.err # NoErr
    /\ \E n \in ActivityNames : Failed(n)
    /\ ~ret.hasResult

\* The report that the outcomes of the fan-out steps determine: the entries
\* of the failing steps among the first k steps of the issue order.
RECURSIVE ExpectedReport(_)
ExpectedReport(k) ==
    IF k = 0 THEN <<>>
    ELSE ExpectedReport(k - 1) \o
         (IF Failed(FixedOrder[k])
             THEN <<PipelineFailure(FixedOrder[k], SliceDetails(futures[FixedOrder[k]].items))>>
          ELSE IF InfraError(FixedOrder[k])
             THEN <<PipelineFailure(FixedOrder[k], StringDetails(futures[FixedOrder[k]].err))>>
          ELSE <<>>)

\* The Deploy entry that the outcome of GoDeploy determines.
ExpectedDeployEntry ==
    IF fDeploy.state = "ready" /\ fDeploy.err = NoErr /\ fDeploy.res.Error # NoErr
       THEN <<PipelineFailure("Deploy", ErrorDetails(fDeploy.res.Error))>>
       ELSE <<>>

\* C15: the result of a run is a function of the outcomes of its steps and
\* not of the order in which the fan-out handles resolved: the report, the
\* deploy decision and the terminal state are determined by the outcomes
\* alone, so two runs with the same outcomes agree on all three.
T_C15_ResultDeterminedByOutcomes ==
    /\ AfterProcess => FanOutEntries(result.Failures) = ExpectedReport(NumActivities)
    /\ AfterGating => (DeployInvoked = (ExpectedReport(NumActivities) = <<>>))
    /\ pc = "Done" =>
          /\ ret.Failures = ExpectedReport(NumActivities) \o ExpectedDeployEntry
          /\ fDeploy.err = NoErr /\ fCleanup.err = NoErr
    /\ pc = "Fatal" => (fClone.err # NoErr \/ fDeploy.err # NoErr \/ fCleanup.err # NoErr)

W_C15 ==
    /\ pc = "Done"
    /\ outOfOrder
    /\ selected = ActivityNames
    /\ Failed("GoTest") /\ Failed("GoFmt") /\ InfraError("GolangCILint")
    /\ Len(ret.Failures) = 3

\* C16: the six fan-out activities are started in the fixed order GoTest,
\* GoFmt, GoModTidy, GoBuild, GoGenerate, GolangCILint, and all of them are
\* started before the workflow waits on any of them: while one is not
\* started, none has been waited for or has resolved.
T_C16_AllIssuedBeforeWait ==
    /\ \A n, m \in ActivityNames :
          (futures[n].state # "none" /\ Position(m) < Position(n)) =>
              futures[m].state # "none"
    /\ (\E n \in ActivityNames : futures[n].state = "none") =>
          /\ selected = {}
          /\ pc \in {"Start", "CloneGet", "FanOut", "Fatal"}
          /\ \A m \in ActivityNames : futures[m].state # "ready"
    /\ pc = "FanOut" =>
          \A n \in ActivityNames :
              (futures[n].state = "pending") = (Position(n) < i)
    /\ \A n \in ActivityNames : calls[n] = IF futures[n].state = "none" THEN 0 ELSE 1

W_C16 ==
    /\ pc = "Select"
    /\ i = 0
    /\ selected = {}
    /\ \A n \in ActivityNames : futures[n].state = "pending"

\* C17: DeleteWorkdir is issued only after every fan-out handle has resolved
\* and, when GoDeploy was invoked, after its handle has resolved.
T_C17_CleanupAfterAllResolved ==
    (fCleanup.state # "none" \/ pc = "Cleanup") =>
        /\ \A n \in ActivityNames : futures[n].state = "ready"
        /\ selected = ActivityNames
        /\ fDeploy.state \in {"none", "ready"}
        /\ DeployInvoked = (fDeploy.state = "ready")

W_C17 ==
    /\ fCleanup.state = "pending"
    /\ fDeploy.state = "ready"
    /\ outOfOrder

\* C18: one workdir per run: every fan-out activity, GoDeploy and
\* DeleteWorkdir receive the metadata that GitClone returned, and the
\* workflow never changes it between the clone and the cleanup.
T_C18_SharedMetadata ==
    /\ \A n \in ActivityNames : futures[n].state # "none" => futures[n].md = fClone.res
    /\ fDeploy.state # "none" => fDeploy.md = fClone.res
    /\ fCleanup.state # "none" => fCleanup.md = fClone.res
    /\ CloneSucceeded => metadata = fClone.res /\ metadata.Workdir \in Workdirs
    /\ ~CloneSucceeded => metadata = ZeroMetadata

W_C18 ==
    /\ pc = "Done"
    /\ DeployInvoked
    /\ fCleanup.md = fClone.res
    /\ fClone.res.Workdir # ""

\* C19: when a run returns a PipelineReport, every working directory that
\* the Clone step created during the run, in any of its attempts, has been
\* removed: no directory of the run is left.
C19_AllWorkdirsRemoved == ret.hasResult => dirs = {}

\* The future of a step invocation, whichever variable holds it.
FutureState(a) ==
    IF a = "GitClone" THEN fClone.state
    ELSE IF a = "GoDeploy" THEN fDeploy.state
    ELSE IF a = "DeleteWorkdir" THEN fCleanup.state
    ELSE futures[a].state

FutureErr(a) ==
    IF a = "GitClone" THEN fClone.err
    ELSE IF a = "GoDeploy" THEN fDeploy.err
    ELSE IF a = "DeleteWorkdir" THEN fCleanup.err
    ELSE futures[a].err

\* At most two attempts of a step have failed while it is still to resolve,
\* so the attempt in progress is at most the third.
AtMostThreeAttempts ==
    \A a \in AllActivities :
        /\ attempt[a] <= 2
        /\ attempt[a] > 0 => FutureState(a) = "pending"

\* What an attempt of step a does: a step that resolves with an error does so
\* at its third attempt, after two failed ones; a failed attempt before the
\* third leaves the step pending and is counted; a step that resolves without
\* error does so at the attempt that succeeded, whichever it is.
AttemptStep(a) ==
    /\ (FutureState(a) = "pending" /\ FutureState(a)' = "ready" /\ FutureErr(a)' # NoErr)
           => attempt[a] = 2
    /\ attempt[a]' # attempt[a]
           => \/ attempt[a]' = attempt[a] + 1 /\ FutureState(a)' = "pending"
              \/ attempt[a]' = 0 /\ FutureState(a)' = "ready"
    /\ (FutureState(a) = "pending" /\ FutureState(a)' = "pending")
           => attempt[a]' \in {attempt[a], attempt[a] + 1}

\* C20: every step invocation of a run (GitClone, each fan-out activity,
\* GoDeploy, DeleteWorkdir) is attempted at most three times; it resolves
\* with an infrastructure error only when its third attempt fails, and it
\* resolves successfully at the first attempt that succeeds.
T_C20_AtMostThreeAttempts ==
    /\ []AtMostThreeAttempts
    /\ [][\A a \in AllActivities : AttemptStep(a)]_vars

\* One fan-out step has resolved with an error after its attempts were
\* exhausted, another has resolved successfully, and a third is at its third
\* attempt after two failed ones.
W_C20 ==
    \E n, m, k \in ActivityNames :
        /\ InfraError(n)
        /\ Passed(m)
        /\ FutureState(k) = "pending" /\ attempt[k] = 2
        /\ fClone.state = "ready" /\ fClone.err = NoErr

\* The run-submission process has exited.
Exited == cli \in {"LoadError", "ValidationError", "StartError", "GetError", "Returned"}

\* C21: an input with an empty repository URL is rejected as a fatal
\* validation error before any step runs: the process exits with an error,
\* the workflow is never started and no GitClone, fan-out, GoDeploy or
\* DeleteWorkdir invocation is issued.
T_C21_InvalidInputRunsNoStep ==
    (cli \notin {"Load", "LoadError"} /\ params.GitURL = "")
        => /\ cli \in {"Validate", "ValidationError"}
           /\ pc = "NotStarted"
           /\ \A a \in AllActivities : calls[a] = 0
           /\ cli = "ValidationError" => exit = "1"

\* An input without URL has been rejected by the validation.
W_C21 == cli = "ValidationError" /\ params.GitURL = "" /\ exit = "1"

\* C22 as stated: once the process has exited and the run is over, the exit
\* is a success exactly when the run ended with a PipelineReport.
C22_Original ==
    (Exited /\ pc \in {"NotStarted", "Done", "Fatal"})
        => (exit = "0" <=> (pc = "Done" /\ ret.hasResult))

\* C22: the process exits with success only when the run has ended with a
\* PipelineReport, whatever the report holds; when Get delivered the outcome
\* of the run, the exit is a success exactly for a report and a failure
\* exactly for a fatal error; invalid input, and every failure of the
\* process itself (loading, starting, waiting), is a failure exit, after
\* which the run may still end with a report.
T_C22_ExitStatus ==
    /\ Exited <=> exit # NoExit
    /\ exit = "0" => (cli = "Returned" /\ pc = "Done" /\ ret.hasResult)
    /\ cli = "Returned" =>
          /\ exit = "0" <=> (pc = "Done" /\ ret.hasResult)
          /\ exit = "1" <=> (pc = "Fatal" /\ ret.err # <<>>)
    /\ cli \in {"LoadError", "ValidationError", "StartError", "GetError"}
          => exit = "1"

\* The process exited with success after a run that recorded a business
\* failure and did not deploy.
W_C22 ==
    /\ cli = "Returned"
    /\ exit = "0"
    /\ Len(ret.Failures) > 0
    /\ ~DeployInvoked

\* The part of C23 that holds in every state: once a step has failed, all
\* six steps have been issued; past the fan-in all six have resolved and
\* been awaited; and the run did not end in the fan-in.
FailureLeavesSiblings ==
    (\E n \in ActivityNames : Failed(n)) =>
        /\ \A m \in ActivityNames : calls[m] = 1 /\ futures[m].state # "none"
        /\ pc \in {"Select", "Process"} \/ AfterProcess
        /\ AfterProcess =>
              /\ selected = ActivityNames
              /\ \A m \in ActivityNames : futures[m].state = "ready"

\* The part of C23 about steps: the wait loop and the "Process results"
\* loop are left only towards the gating decision, after the sixth element.
FanInGoesToGating ==
    /\ (pc = "Select" /\ pc' # "Select") => (pc' = "Process" /\ selected' = ActivityNames)
    /\ (pc = "Process" /\ pc' # "Process") => (pc' = "Gating" /\ i = NumActivities)

\* C23: a business failure of a fan-out step is not fatal and does not
\* affect the other steps: whatever the six outcomes are, all six steps are
\* issued and awaited, and the run reaches the gating decision.
T_C23_BusinessFailureNonFatal ==
    /\ []FailureLeavesSiblings
    /\ [][FanInGoesToGating]_vars
    /\ (pc = "Select") ~> (pc = "Gating")

\* The gating decision is reached with a failed, a passed and an errored
\* step.
W_C23 ==
    /\ pc = "Gating"
    /\ \E n, m, k \in ActivityNames : Failed(n) /\ Passed(m) /\ InfraError(k)

\* In the wait loop i counts the futures delivered so far, fewer than six.
WaitCountsResolutions ==
    pc = "Select" => (i = Cardinality(selected) /\ i < NumActivities)

\* The wait loop ends with the sixth delivery.
WaitEndsAtSix ==
    (pc = "Select" /\ pc' # "Select") =>
        (i = NumActivities - 1 /\ Cardinality(selected') = NumActivities)

\* C24: every run reaches a terminal state, Done with a report or a fatal
\* error, when every issued future eventually resolves: the fan-in wait ends
\* after exactly six deliveries and no Get or Select blocks forever (a run
\* that is over has left every one of them).
T_C24_RunTerminates ==
    /\ <>Terminated
    /\ []WaitCountsResolutions
    /\ [][WaitEndsAtSix]_vars

\* A run is over after its fan-in delivered six futures that had resolved
\* out of their issue order.
W_C24 ==
    /\ pc = "Done"
    /\ ret.hasResult
    /\ Cardinality(selected) = NumActivities
    /\ outOfOrder

\* The state of the run that a position of the workflow function belongs to.
StateOf(p) ==
    CASE p \in {"Start", "CloneGet"} -> "Cloning"
      [] p \in {"FanOut", "Select", "Process"} -> "FanOut"
      [] p = "Gating" -> "Gating"
      [] p = "DeployGet" -> "Deploying"
      [] p \in {"Cleanup", "CleanupGet"} -> "CleaningUp"
      [] p = "Done" -> "Done"
      [] p = "Fatal" -> "Fatal"

\* The states that can follow a state; a fatal error ends the run from
\* Cloning, Deploying and CleaningUp.
Successors(st) ==
    CASE st = "Cloning" -> {"FanOut", "Fatal"}
      [] st = "FanOut" -> {"Gating"}
      [] st = "Gating" -> {"Deploying", "CleaningUp"}
      [] st = "Deploying" -> {"CleaningUp", "Fatal"}
      [] st = "CleaningUp" -> {"Done", "Fatal"}
      [] st = "Done" -> {}
      [] st = "Fatal" -> {}

\* A step stays in its state or enters one of its successors.
LinearStep ==
    StateOf(pc') # StateOf(pc) => StateOf(pc') \in Successors(StateOf(pc))

\* How often each step has been issued, by the state of the run.
IssuedOnce ==
    /\ calls["GitClone"] = IF pc = "Start" THEN 0 ELSE 1
    /\ \A n \in ActivityNames : calls[n] <= 1
    /\ calls["GoDeploy"] <= 1
    /\ calls["DeleteWorkdir"] <= 1
    /\ StateOf(pc) = "Cloning" => \A a \in AllActivities \ {"GitClone"} : calls[a] = 0
    /\ StateOf(pc) \in {"FanOut", "Gating"} =>
          calls["GoDeploy"] = 0 /\ calls["DeleteWorkdir"] = 0
    /\ StateOf(pc) = "Deploying" =>
          calls["GoDeploy"] = 1 /\ calls["DeleteWorkdir"] = 0

\* C25: a run follows the linear state machine Cloning, FanOut, Gating,
\* optionally Deploying, CleaningUp, Done: a state is entered only from its
\* predecessor and never again, so GitClone is issued exactly once, and each
\* fan-out activity, GoDeploy and DeleteWorkdir at most once.
T_C25_LinearStateMachine ==
    /\ [][LinearStep]_vars
    /\ []IssuedOnce

\* A run went through every state, Deploying included.
W_C25 ==
    /\ pc = "Done"
    /\ calls["GitClone"] = 1
    /\ calls["GoDeploy"] = 1
    /\ calls["DeleteWorkdir"] = 1

\* C26: whenever GoDeploy has been invoked, every fan-out entry of the
\* report has empty details; so a returned report never holds both a fan-out
\* entry with non-empty details and a Deploy entry, and a Deploy entry, when
\* there is one, is the last entry.
T_C26_DeployImpliesNoFanOutFailure ==
    /\ DeployInvoked =>
          \A k \in 1..Len(result.Failures) :
              IsFanOutEntry(result.Failures[k]) => EmptyDetails(result.Failures[k].Details)
    /\ ret.hasResult =>
          ~ /\ \E k \in 1..Len(ret.Failures) :
                  /\ IsFanOutEntry(ret.Failures[k])
                  /\ ~EmptyDetails(ret.Failures[k].Details)
            /\ \E k \in 1..Len(ret.Failures) : ret.Failures[k].Activity = "Deploy"
    /\ \A k \in 1..Len(result.Failures) :
          result.Failures[k].Activity = "Deploy" => k = Len(result.Failures)

\* A report with a Deploy entry has been returned.
W_C26 ==
    /\ ret.hasResult
    /\ DeployInvoked
    /\ Len(ret.Failures) > 0
    /\ ret.Failures[Len(ret.Failures)].Activity = "Deploy"

\* C27: each fan-out step contributes at most one entry to the report, its
\* business failure or its error but not both, so the report never has more
\* than six fan-out entries, never two entries with the same step name, and
\* at most seven entries in all.
T_C27_AtMostOneEntryPerStep ==
    /\ \A n \in ActivityNames :
          /\ EntriesOf(result.Failures, n) <= 1
          /\ ~ /\ \E k \in 1..Len(result.Failures) :
                     result.Failures[k].Activity = n /\ result.Failures[k].Details.kind = "slice"
               /\ \E k \in 1..Len(result.Failures) :
                     result.Failures[k].Activity = n /\ result.Failures[k].Details.kind = "string"
    /\ \A k, l \in 1..Len(result.Failures) :
          result.Failures[k].Activity = result.Failures[l].Activity => k = l
    /\ Len(FanOutEntries(result.Failures)) <= 6
    /\ Len(result.Failures) <= 7
    /\ ret.hasResult => ret.Failures = result.Failures

\* A report with six entries, business failures and errors among them, has
\* been returned.
W_C27 ==
    /\ ret.hasResult
    /\ Len(ret.Failures) = 6
    /\ \E n, m \in ActivityNames : Failed(n) /\ InfraError(m)

\* C28: the workdir is not removed while another step may still execute in
\* it: while DeleteWorkdir is issued and has not resolved, no attempt of a
\* fan-out activity or of GoDeploy is running, timed-out attempts included.
C28_NoAttemptRunsAtCleanup ==
    fCleanup.state = "pending" => running = {}

\* The records of an output: its JSON lines, in output order.
IsRecord(line) == line.kind = "json"
IsFailRecord(line) == line.kind = "json" /\ line.Action = "fail" /\ line.Test # ""
FailRecords(lines) ==
    [k \in 1..Len(SelectSeq(lines, IsFailRecord)) |->
        GoTestCLIOutput(SelectSeq(lines, IsFailRecord)[k])]

\* An output as `go test -json` writes it: one record per line, each line
\* ended by a newline; or no output at all.
RecordPerLine(lines) ==
    /\ lines[Len(lines)].kind = "empty"
    /\ \A k \in 1..(Len(lines) - 1) : lines[k].kind = "json"

\* C29: GoTest turns a non-zero exit of the test command into a result, not
\* an error: FailedTests are exactly the output records with Action "fail"
\* and a non-empty Test, in output order; any other error of the command,
\* and output that cannot be parsed, is returned as an error; a non-zero
\* exit without such a record gives an empty FailedTests, which the
\* workflow does not record (the step has passed).
T_C29_GoTestResult ==
    (act.name = "GoTest" /\ act.state # "called") =>
        /\ act.run.status = "exit" =>
              /\ RecordPerLine(act.run.lines) => act.out.err = NoErr
              /\ act.out.err = NoErr => act.out.items = FailRecords(act.run.lines)
              /\ (\E k \in 1..Len(act.run.lines) : act.run.lines[k].kind = "text")
                    => act.out.err # NoErr
        /\ act.run.status = "error" => act.out.err # NoErr
        /\ act.out.err # NoErr => act.out.items = <<>>
        /\ act.state = "processed" =>
              /\ act.out.items = <<>> => act.entries = <<>>
              /\ act.out.items # <<>> =>
                    act.entries = <<PipelineFailure("GoTest", SliceDetails(act.out.items))>>

\* A non-zero exit whose records hold no failed test has been taken as a
\* pass.
W_C29 ==
    /\ act.name = "GoTest"
    /\ act.state = "processed"
    /\ act.run.status = "exit"
    /\ \E k \in 1..Len(act.run.lines) : IsRecord(act.run.lines[k])
    /\ act.out.items = <<>>
    /\ act.entries = <<>>

\* The steps whose result type has a FailedFiles list that the body never
\* fills.
BuildSteps == {"GoModTidy", "GoBuild", "GoGenerate"}

\* A build step never resolves as a business failure, and its entry in the
\* report, if any, holds an error message.
NoBuildBusinessFailure ==
    \A n \in BuildSteps :
        /\ (futures[n].state = "ready" /\ futures[n].err = NoErr) => futures[n].items = <<>>
        /\ \A k \in 1..Len(result.Failures) :
              result.Failures[k].Activity = n =>
                  /\ result.Failures[k].Details.kind = "string"
                  /\ result.Failures[k].Details.s = futures[n].err
                  /\ futures[n].err # NoErr

\* A build step resolves with an error only when its third attempt fails.
BuildErrorAfterRetries ==
    \A n \in BuildSteps :
        (futures[n].state = "pending" /\ futures[n].state' = "ready" /\ futures[n].err' # NoErr)
            => attempt[n] = 2

\* C30: GoBuild, GoGenerate and GoModTidy never return a business failure:
\* each attempt returns an error (any non-zero exit) or a result with an
\* empty FailedFiles, so a failing build, generate or tidy shows in the
\* report only as an error entry, after the retries are exhausted.
T_C30_BuildStepsFailAsErrors ==
    /\ []NoBuildBusinessFailure
    /\ [][BuildErrorAfterRetries]_vars

\* A report with the error entry of a failed build has been returned.
W_C30 ==
    /\ ret.hasResult
    /\ \E k \in 1..Len(ret.Failures) :
          /\ ret.Failures[k].Activity = "GoBuild"
          /\ ret.Failures[k].Details = StringDetails("running go build command")

====
